---- MODULE Spec2Model ----
(***************************************************************************)
(* A model of escramer/minecraft-bot: the generic graph search of          *)
(* search.py and the simulated agent of bot.py.                            *)
(*                                                                         *)
(* Conventions.                                                            *)
(*  - Python's None is the string "None"; block ids are strings.           *)
(*  - A Python tuple node (state, action, total_cost, prev_node) is a      *)
(*    record stored in the table `nodes`; prev is an index into the table  *)
(*    and 0 stands for None.                                               *)
(*  - A search state is an object [c |-> content, id |-> identity].  For a *)
(*    class that compares by value the identity is always 0; for a class   *)
(*    that only defines __hash__ every object gets an identity of its own, *)
(*    so TLA+ equality of the record is Python's == of the object.         *)
(*  - bot.py line 412 (`_DIRS = _adj_dirs() +`) does not parse; _DIRS is   *)
(*    never read, and the line is left out.  Everything else is modelled   *)
(*    with the meaning Python gives it, exceptions included.               *)
(***************************************************************************)
EXTENDS Integers, Sequences, FiniteSets, TLC

VARIABLES
    \* ---- the search problem handed to graph_search
    succs,          \* content -> list of triples (successor, action, stepCost)
    goals,          \* set of contents satisfying isGoalState
    problemKind,    \* "FindProblem" (value states) | "MineProblem" (_ImaginaryBot states)
    heur,           \* content -> heuristic value
    discipline,     \* "dfs" | "bfs" | "ucs" | "astar"
    \* ---- graph_search's locals
    nodes,          \* table of nodes created so far
    fringe,         \* the frontier container
    closed,         \* the closed set (of state objects)
    pc,             \* "start" | "loop" | "done" | "failed"
    result,         \* the returned list of actions
    \* ---- bookkeeping
    nextId,         \* next fresh object identity
    pops,           \* loop iterations performed
    expanded,       \* content -> number of times its successors were pushed
    \* ---- the world and the bots (bot.py)
    world,          \* the live world: cell -> block id (_MINECRAFT)
    bots,           \* bot objects; bots[1] is the Bot, the others _ImaginaryBots
    invs,           \* heap of inventory dicts, indexed by reference
    chgs,           \* heap of _changes dicts, indexed by reference
    problemType,    \* "mine" (_MineProblem) | "return" (_ReturnProblem)
    blockId,        \* the problem's block id
    blockLoc,       \* _MineProblem's block_loc
    \* ---- bookkeeping
    meta,           \* per bot: parent, actions applied, heuristic values on its path
    last,           \* the last call: function, arguments, exception, snapshots
    setLog,         \* per bot: the _set_block calls that reached it, in order
    init0,          \* the live world and the Bot as they were initially
    playerLoc,      \* the player's tile position (_player_loc())
    replay          \* fetch: the planned actions, the simulated bot after each,
                    \* the number of them the Bot has taken, and whether the
                    \* generator's rules for the Bot listed each as it was taken

searchVars == <<succs, goals, problemKind, heur, discipline,
                nodes, fringe, closed, pc, result, nextId, pops, expanded>>

botVars == <<world, bots, invs, chgs, problemType, blockId, blockLoc,
             meta, last, setLog, init0, playerLoc, replay>>

vars == <<searchVars, botVars>>

None == "None"

\* ------------------------------------------------------------------ bounds
MaxPops == 10
MaxH == 3

\* ---------------------------------------------------------- problem family
States == 1..7
StartContent == 1

\* The optional edges of the family, in the order getSuccessors lists them.
CandidateEdges ==
    << <<1, 2>>, <<1, 3>>, <<2, 5>>, <<3, 4>>, <<4, 5>>,
       <<5, 6>>, <<6, 7>>, <<3, 5>>, <<5, 1>> >>

StepCost == 1

RECURSIVE SuccList(_, _, _)
SuccList(edges, s, i) ==
    IF i > Len(CandidateEdges) THEN <<>>
    ELSE LET rest == SuccList(edges, s, i + 1)
             e == CandidateEdges[i]
         IN IF i \in edges /\ e[1] = s
            THEN <<[succ |-> e[2], action |-> 0, cost |-> StepCost]>> \o rest
            ELSE rest

\* actions are numbered by their place in the state's successor list
Numbered(list) ==
    [k \in 1..Len(list) |-> [list[k] EXCEPT !.action = k]]

GraphOf(edges) == [s \in States |-> Numbered(SuccList(edges, s, 1))]

\* ------------------------------------------------------ reference notions
Targets(g, s) == {g[s][k].succ : k \in 1..Len(g[s])}

RECURSIVE Reach(_, _)
Reach(g, S) ==
    LET T == S \cup UNION {Targets(g, s) : s \in S}
    IN IF T = S THEN S ELSE Reach(g, T)

Infinity == 0 - 1

\* least number of successor edges from a member of `layer` to a member of G
RECURSIVE DistFrom(_, _, _, _, _)
DistFrom(g, layer, seen, G, d) ==
    IF layer \cap G # {} THEN d
    ELSE IF layer = {} THEN Infinity
    ELSE LET next == (UNION {Targets(g, s) : s \in layer}) \ seen
         IN DistFrom(g, next, seen \cup next, G, d + 1)

Dist(g, s, G) == DistFrom(g, {s}, {s}, G, 0)

\* --------------------------------------------------- SearchProblem (search.py)
getStartState == [c |-> StartContent, id |-> 0]

isGoalState(state) == state.c \in goals

\* A successor of a _MineProblem state is a fresh deepcopy, an object that
\* equals no other (only __hash__ is defined); a FindProblem successor is a
\* vector, equal to every vector with the same coordinates.
NewState(c, fresh) ==
    IF problemKind = "MineProblem" THEN [c |-> c, id |-> fresh]
    ELSE [c |-> c, id |-> 0]

getSuccessors(state) ==
    [k \in 1..Len(succs[state.c]) |->
        [succ   |-> NewState(succs[state.c][k].succ, nextId + k - 1),
         action |-> succs[state.c][k].action,
         cost   |-> succs[state.c][k].cost]]

\* ------------------------------------------------------ frontier containers
\* an entry keeps the pushed node, its priority and its insertion count
StackPop(f) == Len(f)

QueuePop(f) == 1

PriorityPop(f) ==
    CHOOSE i \in 1..Len(f) :
        \A j \in 1..Len(f) :
            \/ f[i].priority < f[j].priority
            \/ f[i].priority = f[j].priority /\ f[i].count <= f[j].count

PopIndex(f) ==
    CASE discipline = "dfs" -> StackPop(f)
      [] discipline = "bfs" -> QueuePop(f)
      [] OTHER -> PriorityPop(f)

Remove(f, i) == SubSeq(f, 1, i - 1) \o SubSeq(f, i + 1, Len(f))

\* ------------------------------------------------------------ priorities
ucsPriority(node) == node.cost

nullHeuristic(state) == 0

astarPriority(node) == node.cost + heur[node.state.c]

PriorityOf(node) ==
    CASE discipline = "ucs" -> ucsPriority(node)
      [] discipline = "astar" -> astarPriority(node)
      [] OTHER -> 0

\* -------------------------------------------------------------- graph_search
Entry(n, node, count) == [node |-> n, priority |-> PriorityOf(node), count |-> count]

\* rtn.append(node[1]) while node[3] is not None, then rtn.reverse()
RECURSIVE WalkParents(_)
WalkParents(n) ==
    IF nodes[n].prev = 0 THEN <<>>
    ELSE <<nodes[n].action>> \o WalkParents(nodes[n].prev)

Reverse(s) == [i \in 1..Len(s) |-> s[Len(s) + 1 - i]]

UnreversedPath(n) == WalkParents(n)

ReconstructPath(n) == Reverse(WalkParents(n))

\* the cost a pushed successor carries
StepCostOnly(node, cost) == cost

PushedCost(node, cost) == node.cost + cost

Start ==
    /\ pc = "start"
    /\ nodes' = <<[state |-> getStartState, action |-> 0, cost |-> 0, prev |-> 0]>>
    /\ fringe' = <<Entry(1, nodes'[1], 0)>>
    /\ closed' = {}
    /\ pc' = "loop"
    /\ UNCHANGED botVars
    /\ UNCHANGED <<succs, goals, problemKind, heur, discipline, result, nextId,
                   pops, expanded>>

Fail ==
    /\ pc = "loop"
    /\ fringe = <<>>
    /\ pc' = "failed"
    /\ UNCHANGED botVars
    /\ UNCHANGED <<succs, goals, problemKind, heur, discipline, nodes, fringe,
                   closed, result, nextId, pops, expanded>>

Return ==
    /\ pc = "loop"
    /\ fringe # <<>>
    /\ pops < MaxPops
    /\ LET i == PopIndex(fringe)
           n == fringe[i].node
       IN /\ isGoalState(nodes[n].state)
          /\ fringe' = Remove(fringe, i)
          /\ result' = ReconstructPath(n)
    /\ pc' = "done"
    /\ pops' = pops + 1
    /\ UNCHANGED botVars
    /\ UNCHANGED <<succs, goals, problemKind, heur, discipline, nodes, closed,
                   nextId, expanded>>

Expand ==
    /\ pc = "loop"
    /\ fringe # <<>>
    /\ pops < MaxPops
    /\ LET i == PopIndex(fringe)
           n == fringe[i].node
           node == nodes[n]
           state == node.state
           triples == getSuccessors(state)
           base == Len(nodes)
           new == [k \in 1..Len(triples) |->
                     [state |-> triples[k].succ, action |-> triples[k].action,
                      cost |-> PushedCost(node, triples[k].cost), prev |-> n]]
       IN /\ ~isGoalState(state)
          /\ state \notin closed
          /\ closed' = closed \cup {state}
          /\ nodes' = nodes \o new
          /\ fringe' = Remove(fringe, i) \o
                 [k \in 1..Len(new) |-> Entry(base + k, new[k], base + k - 1)]
          /\ nextId' = nextId + Len(triples)
          /\ expanded' = [expanded EXCEPT ![state.c] = @ + 1]
    /\ pops' = pops + 1
    /\ UNCHANGED botVars
    /\ UNCHANGED <<succs, goals, problemKind, heur, discipline, pc, result>>

Skip ==
    /\ pc = "loop"
    /\ fringe # <<>>
    /\ pops < MaxPops
    /\ LET i == PopIndex(fringe)
           n == fringe[i].node
       IN /\ ~isGoalState(nodes[n].state)
          /\ nodes[n].state \in closed
          /\ fringe' = Remove(fringe, i)
    /\ pops' = pops + 1
    /\ UNCHANGED botVars
    /\ UNCHANGED <<succs, goals, problemKind, heur, discipline, nodes, closed,
                   pc, result, nextId, expanded>>

\* ------------------------------------------------------- problem instances
GoalChoices == {{7}, {1}, {4, 7}}

BumpNodes == {2, 3, 5}

ZeroHeuristic == [s \in States |-> nullHeuristic(s)]

Bump(n, v) == [s \in States |-> IF s = n THEN v ELSE 0]

PerfectHeuristic(g, G) ==
    [s \in States |-> IF Dist(g, s, G) = Infinity THEN 0 ELSE Dist(g, s, G)]

Heuristics(g, G) ==
    {ZeroHeuristic, PerfectHeuristic(g, G)}
        \cup {Bump(n, v) : n \in BumpNodes, v \in 1..MaxH}

SearchInit ==
    /\ \E edges \in SUBSET (1..Len(CandidateEdges)) : succs = GraphOf(edges)
    /\ goals \in GoalChoices
    /\ problemKind \in {"FindProblem", "MineProblem"}
    /\ discipline \in {"dfs", "bfs", "ucs", "astar"}
    /\ IF discipline = "astar" THEN heur \in Heuristics(succs, goals)
       ELSE heur = ZeroHeuristic
    /\ nodes = <<>>
    /\ fringe = <<>>
    /\ closed = {}
    /\ pc = "start"
    /\ result = <<>>
    /\ nextId = 1
    /\ pops = 0
    /\ expanded = [s \in States |-> 0]

SearchIdle ==
    /\ succs = GraphOf({})
    /\ goals = {}
    /\ problemKind = "MineProblem"
    /\ discipline = "astar"
    /\ heur = ZeroHeuristic
    /\ nodes = <<>>
    /\ fringe = <<>>
    /\ closed = {}
    /\ pc = "idle"
    /\ result = <<>>
    /\ nextId = 1
    /\ pops = 0
    /\ expanded = [s \in States |-> 0]

SearchNext == Start \/ Fail \/ Return \/ Expand \/ Skip

\* ===================================================================== bot.py
\* ------------------------------------------------------- blocks, vectors
_AIR == "AIR"
_WATER == "WATER"
_LAVA == "LAVA"
_BEDROCK == "BEDROCK"
STONE == "STONE"
DIRT == "DIRT"
_BOT_BLOCK == "IRON"

_DROP == 2
_DROP_PLUS_1 == _DROP + 1

Vec(x, y, z) == <<x, y, z>>

Add(p, d) == <<p[1] + d[1], p[2] + d[2], p[3] + d[3]>>

Up == Vec(0, 1, 0)
Down == Vec(0, -1, 0)

_adj_dirs == <<Vec(1, 0, 0), Vec(-1, 0, 0), Vec(0, 0, 1), Vec(0, 0, -1)>>

Abs(n) == IF n < 0 THEN -n ELSE n

_manhattan(pos1, pos2) == Abs(pos1[1] - pos2[1]) + Abs(pos1[2] - pos2[2])

\* ------------------------------------------------------------ the world
\* The modelled part of the world is a window of cells, the domain of the
\* world function; every cell outside it reads as bedrock.
MaxX == 1
MaxY == 3

Cells == {Vec(x, y, 0) : x \in 0..MaxX, y \in 0..MaxY}

getBlock(w, pos) == IF pos \in DOMAIN w THEN w[pos] ELSE _BEDROCK

setBlock(w, pos, block) ==
    IF pos \in DOMAIN w THEN [w EXCEPT ![pos] = block] ELSE w

\* ------------------------------------------------------------ Python dicts
EmptyDict == <<>>

DictPut(d, k, v) == [x \in (DOMAIN d) \cup {k} |-> IF x = k THEN v ELSE d[x]]

DictDel(d, k) == [x \in (DOMAIN d) \ {k} |-> d[x]]

\* ------------------------------------------------------- machine states
\* The operations below map a machine state m (the world, the objects and
\* the two heaps, with the exception raised so far) to the machine state
\* after the call.
NoContent == [pos |-> Vec(0, 0, 0), inventory |-> EmptyDict, changes |-> EmptyDict]

Machine ==
    [world |-> world, bots |-> bots, invs |-> invs, chgs |-> chgs,
     setLog |-> setLog, raised |-> None,
     placeCalled |-> FALSE, placeEntry |-> NoContent]

Pos(m, b) == m.bots[b].pos

Inventory(m, b) == m.invs[m.bots[b].inv]

Changes(m, b) ==
    IF m.bots[b].cls = "Bot" THEN EmptyDict ELSE m.chgs[m.bots[b].changes]

Content(m, b) ==
    [pos |-> Pos(m, b), inventory |-> Inventory(m, b), changes |-> Changes(m, b)]

Raise(m, exc) == [m EXCEPT !.raised = exc]

\* ------------------------------------------------------- _ImaginaryBot
Imag_set_block_first_wins(m, b, pos, block) ==
    LET r == m.bots[b].changes
    IN [m EXCEPT !.chgs[r] = IF pos \in DOMAIN @ THEN @ ELSE DictPut(@, pos, block),
                 !.setLog[b] = Append(@, <<pos, block>>)]

Imag_set_block(m, b, pos, block) ==
    LET r == m.bots[b].changes
    IN [m EXCEPT !.chgs[r] = DictPut(@, pos, block),
                 !.setLog[b] = Append(@, <<pos, block>>)]

Imag_get_block(m, b, pos) ==
    IF pos \in DOMAIN m.chgs[m.bots[b].changes]
    THEN m.chgs[m.bots[b].changes][pos]
    ELSE getBlock(m.world, pos)

\* ----------------------------------------------------------------- Bot
Bot_set_block(m, b, pos, block) == [m EXCEPT !.world = setBlock(@, pos, block)]

Bot_get_block(m, b, pos) == getBlock(m.world, pos)

Bot_move(m, b, pos) ==
    LET old == Pos(m, b)
        m1 == Bot_set_block(m, b, old, _AIR)
        m2 == Bot_set_block(m1, b, Add(old, Up), _AIR)
        m3 == Bot_set_block(m2, b, pos, _BOT_BLOCK)
        m4 == Bot_set_block(m3, b, Add(pos, Up), _BOT_BLOCK)
    IN [m4 EXCEPT !.bots[b].pos = pos]

\* --------------------------------------------------------- _GenericBot
_set_block(m, b, pos, block) ==
    IF m.bots[b].cls = "Bot" THEN Bot_set_block(m, b, pos, block)
    ELSE Imag_set_block(m, b, pos, block)

_get_block(m, b, pos) ==
    IF m.bots[b].cls = "Bot" THEN Bot_get_block(m, b, pos)
    ELSE Imag_get_block(m, b, pos)

Generic_move(m, b, pos) == [m EXCEPT !.bots[b].pos = pos]

_move(m, b, pos) ==
    IF m.bots[b].cls = "Bot" THEN Bot_move(m, b, pos)
    ELSE Generic_move(m, b, pos)

contains(m, b, block) == block \in DOMAIN Inventory(m, b)

_add_to_inv(m, b, block) ==
    LET r == m.bots[b].inv
    IN IF block \in DOMAIN m.invs[r]
       THEN [m EXCEPT !.invs[r][block] = @ + 1]
       ELSE [m EXCEPT !.invs[r] = DictPut(@, block, 1)]

\* the keys `for key in self._inventory` may meet first among those that are
\* not `exclude` (a dict's iteration order is not fixed by the program)
PlaceableKeys(m, b, exclude) == {k \in DOMAIN Inventory(m, b) : k # exclude}

\* `key` is the key the loop of lines 97-100 stops at
_place_keeps_zero(m, b, loc, exclude, block, key) ==
    LET m0 == [m EXCEPT !.placeCalled = TRUE, !.placeEntry = Content(m, b)]
        r == m.bots[b].inv
        inv == m.invs[r]
        chosen == IF block = None THEN key ELSE block
    IN IF inv = EmptyDict THEN Raise(m0, "Inventory empty")
       ELSE IF block = None /\ PlaceableKeys(m, b, exclude) = {}
       THEN Raise(m0, "Only the excluded block")
       ELSE IF chosen \notin DOMAIN inv THEN Raise(m0, "KeyError")
       ELSE _set_block([m0 EXCEPT !.invs[r][chosen] = @ - 1], b, loc, chosen)

_place_ignores_exclude(m, b, loc, exclude, block, key) ==
    LET m0 == [m EXCEPT !.placeCalled = TRUE, !.placeEntry = Content(m, b)]
        r == m.bots[b].inv
        inv == m.invs[r]
        chosen == IF block # None THEN block
                  ELSE IF key \in DOMAIN inv THEN key
                  ELSE CHOOSE k \in DOMAIN inv : TRUE
    IN IF inv = EmptyDict THEN Raise(m0, "Inventory empty")
       ELSE IF chosen \notin DOMAIN inv THEN Raise(m0, "KeyError")
       ELSE LET m1 == IF inv[chosen] = 1
                      THEN [m0 EXCEPT !.invs[r] = DictDel(@, chosen)]
                      ELSE [m0 EXCEPT !.invs[r][chosen] = @ - 1]
            IN _set_block(m1, b, loc, chosen)

_place(m, b, loc, exclude, block, key) ==
    LET m0 == [m EXCEPT !.placeCalled = TRUE, !.placeEntry = Content(m, b)]
        r == m.bots[b].inv
        inv == m.invs[r]
        chosen == IF block = None THEN key ELSE block
    IN IF inv = EmptyDict THEN Raise(m0, "Inventory empty")
       ELSE IF block = None /\ PlaceableKeys(m, b, exclude) = {}
       THEN Raise(m0, "Only the excluded block")
       ELSE IF chosen \notin DOMAIN inv THEN Raise(m0, "KeyError")
       ELSE LET m1 == IF inv[chosen] = 1
                      THEN [m0 EXCEPT !.invs[r] = DictDel(@, chosen)]
                      ELSE [m0 EXCEPT !.invs[r][chosen] = @ - 1]
            IN _set_block(m1, b, loc, chosen)

_move_down(m, b) ==
    LET new_pos == Add(Pos(m, b), Down)
        block == _get_block(m, b, new_pos)
        m1 == IF block # _WATER THEN _add_to_inv(m, b, block) ELSE m
    IN _move(m1, b, new_pos)

_move_up(m, b, exclude, key) ==
    LET m1 == _move(m, b, Add(Pos(m, b), Up))
    IN _place(m1, b, Add(Pos(m1, b), Down), exclude, None, key)

\* self.add_to_inv is no attribute of the bot: the call raises before the
\* block is set
_mine(m, b, loc) ==
    LET block == _get_block(m, b, loc)
    IN Raise(m, "AttributeError")

\* ------------------------------------------------------------- actions
\* an action dict: 'func' with its 'args' and 'kwargs'
Action(func, pos, exclude, block) ==
    [func |-> func, pos |-> pos, exclude |-> exclude, block |-> block]

NoPos == Vec(0, -1, 0)

take_action(m, b, action, key) ==
    CASE action.func = "_move" -> _move(m, b, action.pos)
      [] action.func = "_move_up" -> _move_up(m, b, action.exclude, key)
      [] action.func = "_move_down" -> _move_down(m, b)
      [] action.func = "_mine" -> _mine(m, b, action.pos)
      [] action.func = "_place" ->
            _place(m, b, action.pos, action.exclude, action.block, key)

\* --------------------------------------------------- the action generator
\* A generator function's result: the exception it raises (None for none),
\* whether it returns None, and the list `rtn` it has built.
Result(raised, none, rtn) == [raised |-> raised, none |-> none, rtn |-> rtn]

EmptyBlocks == {_AIR, _WATER}

_surrounded(m, b) ==
    \A i \in 1..Len(_adj_dirs) :
        _get_block(m, b, Add(Pos(m, b), _adj_dirs[i])) = _WATER

MoveTo(pos) == Action("_move", pos, None, None)

\* the loop of lines 206-215: at most n cells are looked at, from pos down
RECURSIVE Fall(_, _, _, _)
Fall(m, b, pos, n) ==
    IF n = 0 THEN <<>>
    ELSE LET block == _get_block(m, b, pos)
         IN IF block # _AIR
            THEN IF block # _LAVA THEN <<MoveTo(Add(pos, Up))>> ELSE <<>>
            ELSE Fall(m, b, Add(pos, Down), n - 1)

\* the list rtn that _side_moves has built when it reaches its end
side_moves_rtn(m, b, dir, can_move_up) ==
    LET base_pos == Add(Pos(m, b), dir)
        base_block == _get_block(m, b, base_pos)
        step_up ==
            IF /\ can_move_up
               /\ base_block \notin {_AIR, _LAVA, _WATER}
               /\ _get_block(m, b, Add(base_pos, Up)) \in EmptyBlocks
               /\ _get_block(m, b, Add(base_pos, Vec(0, 2, 0))) \in EmptyBlocks
            THEN <<MoveTo(Add(base_pos, Up))>>
            ELSE <<>>
        clear ==
            /\ _get_block(m, b, base_pos) \in EmptyBlocks
            /\ _get_block(m, b, Add(base_pos, Up)) \in EmptyBlocks
        fall == IF clear THEN Fall(m, b, Add(base_pos, Down), _DROP_PLUS_1)
                ELSE <<>>
    IN step_up \o fall

\* _side_moves has no return statement: it returns None
_side_moves(m, b, dir, can_move_up) ==
    Result(None, TRUE, side_moves_rtn(m, b, dir, can_move_up))

can_move_up(m, b) ==
    _get_block(m, b, Add(Pos(m, b), Vec(0, 2, 0))) \in {_AIR, _WATER}

\* the list rtn of _get_move_actions before the loop over the side moves
vertical_moves_rtn(m, b, exclude) ==
    LET up == IF can_move_up(m, b)
              THEN IF _surrounded(m, b)
                   THEN <<MoveTo(Add(Pos(m, b), Up))>>
                   ELSE <<Action("_move_up", NoPos, exclude, None)>>
              ELSE <<>>
        hidden_block == _get_block(m, b, Add(Pos(m, b), Vec(0, -2, 0)))
        down == IF hidden_block = _WATER \/ hidden_block \notin {_AIR, _LAVA}
                THEN <<Action("_move_down", NoPos, None, None)>>
                ELSE <<>>
    IN up \o down

RECURSIVE Flatten(_)
Flatten(lists) ==
    IF lists = <<>> THEN <<>> ELSE Head(lists) \o Flatten(Tail(lists))

\* rtn.extend(None) raises TypeError
_get_move_actions(m, b, exclude) ==
    LET sides == [i \in 1..Len(_adj_dirs) |->
                     _side_moves(m, b, _adj_dirs[i], can_move_up(m, b))]
    IN IF \E i \in 1..Len(sides) : sides[i].none
       THEN Result("TypeError", FALSE, vertical_moves_rtn(m, b, exclude))
       ELSE Result(None, FALSE,
                   vertical_moves_rtn(m, b, exclude)
                       \o Flatten([i \in 1..Len(sides) |-> sides[i].rtn]))

MineAt(pos) == Action("_mine", pos, None, None)

_get_mine_actions(m, b) ==
    LET dont_mine == {_AIR, _WATER, _LAVA}
        pos_above == Add(Pos(m, b), Vec(0, 2, 0))
        above == IF _get_block(m, b, pos_above) \notin dont_mine
                 THEN <<MineAt(pos_above)>> ELSE <<>>
        side(dir) ==
            LET pos == Add(Pos(m, b), dir)
            IN (IF _get_block(m, b, pos) \notin dont_mine
                THEN <<MineAt(pos)>> ELSE <<>>)
               \o (IF _get_block(m, b, Add(pos, Up)) \notin dont_mine
                   THEN <<MineAt(Add(pos, Up))>> ELSE <<>>)
    IN Result(None, FALSE,
              above \o Flatten([i \in 1..Len(_adj_dirs) |-> side(_adj_dirs[i])]))

_has_blocks_to_place(m, b, exclude) ==
    \E block \in DOMAIN Inventory(m, b) : block # exclude

AllDirs == _adj_dirs \o <<Vec(0, 1, 0), Vec(0, -1, 0)>>

\* the loop without its test `new_loc not in player`
can_place_loop_any_neighbour(m, b, loc) ==
    LET non_blocks == {_AIR, _WATER, _LAVA}
    IN \E i \in 1..Len(AllDirs) :
          _get_block(m, b, Add(loc, AllDirs[i])) \notin non_blocks

\* the loop of lines 280-285 over the six directions
can_place_loop(m, b, loc) ==
    LET non_blocks == {_AIR, _WATER, _LAVA}
        player == {Pos(m, b), Add(Pos(m, b), Up)}
    IN \E i \in 1..Len(AllDirs) :
          LET new_loc == Add(loc, AllDirs[i])
          IN new_loc \notin player /\ _get_block(m, b, new_loc) \notin non_blocks

\* `_adj_dirs + [...]` adds a list to a function: TypeError
_can_place(m, b, loc) == Result("TypeError", FALSE, <<>>)

\* the cells _get_placement_actions asks _can_place about
placement_dirs(m, b) ==
    LET side(dir) ==
            <<dir, Add(dir, Up)>>
            \o (IF _get_block(m, b, Add(Pos(m, b), dir)) \in {_AIR, _WATER}
                THEN <<Add(dir, Down)>> ELSE <<>>)
    IN <<Vec(0, 2, 0)>> \o Flatten([i \in 1..Len(_adj_dirs) |-> side(_adj_dirs[i])])

PlaceAt(pos, exclude) == Action("_place", pos, exclude, None)

\* the list rtn of _get_placement_actions, were _can_place to run its loop
placement_rtn(m, b, block) ==
    IF ~_has_blocks_to_place(m, b, block) THEN <<>>
    ELSE LET dirs == placement_dirs(m, b)
         IN Flatten([i \in 1..Len(dirs) |->
                IF can_place_loop(m, b, Add(Pos(m, b), dirs[i]))
                THEN <<PlaceAt(Add(Pos(m, b), dirs[i]), block)>>
                ELSE <<>>])

_get_placement_actions(m, b, block) ==
    IF ~_has_blocks_to_place(m, b, block) THEN Result(None, FALSE, <<>>)
    ELSE LET first == _can_place(m, b, Add(Pos(m, b), placement_dirs(m, b)[1]))
         IN IF first.raised # None THEN Result(first.raised, FALSE, <<>>)
            ELSE Result(None, FALSE, placement_rtn(m, b, block))

get_legal_actions(m, b, block) ==
    LET moves == _get_move_actions(m, b, block)
        mines == _get_mine_actions(m, b)
        places == _get_placement_actions(m, b, block)
    IN IF moves.raised # None THEN Result(moves.raised, FALSE, <<>>)
       ELSE IF places.raised # None THEN Result(places.raised, FALSE, <<>>)
       ELSE Result(None, FALSE, moves.rtn \o mines.rtn \o places.rtn)

\* The actions the generator's rules build for a bot: the lists of the three
\* generator functions, each taken as it stands where the function ends.
RuleActions(m, b, block) ==
    vertical_moves_rtn(m, b, block)
        \o Flatten([i \in 1..Len(_adj_dirs) |->
                       side_moves_rtn(m, b, _adj_dirs[i], can_move_up(m, b))])
        \o _get_mine_actions(m, b).rtn
        \o placement_rtn(m, b, block)

\* ------------------------------------------------------------ copies
\* deepcopy of a bot: a new object with dicts of its own
shallowcopy(m, b) ==
    [m EXCEPT !.bots = Append(@, m.bots[b]),
              !.setLog = Append(@, m.setLog[b])]

deepcopy(m, b) ==
    [m EXCEPT !.bots = Append(@, [m.bots[b] EXCEPT
                                    !.inv = Len(m.invs) + 1,
                                    !.changes = Len(m.chgs) + 1]),
              !.invs = Append(@, m.invs[m.bots[b].inv]),
              !.chgs = Append(@, m.chgs[m.bots[b].changes]),
              !.setLog = Append(@, m.setLog[b])]

\* _ImaginaryBot(pos, inventory): deepcopy of both, and no changes
ImaginaryBot_init(m, pos, inventory) ==
    [m EXCEPT !.bots = Append(@, [cls |-> "_ImaginaryBot", pos |-> pos,
                                  inv |-> Len(m.invs) + 1,
                                  changes |-> Len(m.chgs) + 1]),
              !.invs = Append(@, m.invs[inventory]),
              !.chgs = Append(@, EmptyDict),
              !.setLog = Append(@, <<>>)]

\* ----------------------------------------------------------- heuristics
_drops(dist, drop) ==
    LET rtn == dist \div drop
    IN IF dist % drop # 0 THEN rtn + 1 ELSE rtn

get_block_id == blockId

get_block_loc == blockLoc

_mine_heuristic(m, b) ==
    IF contains(m, b, get_block_id) THEN 0
    ELSE LET bot_pos == Pos(m, b)
             dest_pos == get_block_loc
             man_dist == _manhattan(<<bot_pos[1], bot_pos[3]>>,
                                    <<dest_pos[1], dest_pos[3]>>)
             y0 == bot_pos[2] - dest_pos[2]
             y1 == IF y0 < 0 THEN y0 + 1 ELSE y0
         IN IF y1 = 0 THEN man_dist
            ELSE LET drop == IF y1 > 0 THEN _DROP ELSE 1
                     y_diff == Abs(y1)
                     drops == _drops(y_diff, drop)
                 IN IF man_dist > drops THEN man_dist
                    ELSE IF man_dist = drops THEN man_dist + 1
                    ELSE IF drop = 1 THEN drops
                    ELSE IF y_diff % drop = 1 THEN drops
                    ELSE drops + 1

\* _MineProblem.isGoalState
Mine_isGoalState(m, b) == contains(m, b, blockId)

\* ------------------------------------------------------ _ReturnProblem
Sub(p, q) == <<p[1] - q[1], p[2] - q[2], p[3] - q[3]>>

\* Vec3 / 2 on integer coordinates
Half(v) == <<v[1] \div 2, v[2] \div 2, v[3] \div 2>>

get_player_loc == playerLoc

Return_isGoalState_no_floor(m, b) ==
    LET diff == Sub(Pos(m, b), playerLoc)
    IN /\ diff[2] = 0
       /\ (diff[1] = 0 \/ diff[3] = 0)
       /\ Abs(diff[1]) + Abs(diff[3]) = 2

Return_isGoalState(m, b) ==
    LET diff == Sub(Pos(m, b), playerLoc)
    IN /\ diff[2] = 0
       /\ (diff[1] = 0 \/ diff[3] = 0)
       /\ Abs(diff[1]) + Abs(diff[3]) = 2
       /\ _get_block(m, b, Add(Add(playerLoc, Half(diff)), Vec(0, -1, 0)))
              \notin {_AIR, _LAVA, _WATER}

\* k * dir
Scale(k, v) == <<k * v[1], k * v[2], k * v[3]>>

\* the value lines 571-584 compute from the bot's (x, z): the loop returns
\* drops at the first direction whose distance is below drops, and the least
\* distance when there is none
return_heuristic_rtn(m, b) ==
    LET bot_pos == Pos(m, b)
        player_pos == get_player_loc
        bot_plane_pos == <<bot_pos[1], bot_pos[3]>>
        y0 == bot_pos[2] - player_pos[2]
        drop == IF y0 > 0 THEN _DROP ELSE 1
        y_diff == Abs(y0)
        drops == _drops(y_diff, drop)
        man_dist(i) ==
            LET loc == Add(player_pos, Scale(2, _adj_dirs[i]))
            IN _manhattan(bot_plane_pos, <<loc[1], loc[3]>>)
        min_man == CHOOSE d \in {man_dist(i) : i \in 1..Len(_adj_dirs)} :
                      \A i \in 1..Len(_adj_dirs) : d <= man_dist(i)
    IN IF \E i \in 1..Len(_adj_dirs) : man_dist(i) < drops THEN drops
       ELSE min_man

\* bot_plane_pos = (bot.x, bot.z): the bot has no attribute x, and the
\* function raises before it computes a value
_return_heuristic(m, b) == [raised |-> "AttributeError", value |-> None]

\* fetch: astar(mine_prob, mine_heuristic), astar(return_prob,
\* return_heuristic); for the return problem, the value of lines 571-584
Heuristic(m, b) ==
    IF problemType = "return" THEN return_heuristic_rtn(m, b)
    ELSE _mine_heuristic(m, b)

\* ------------------------------------------------------ initial states
\* a column of the world: stone up to level - 2, `cap` at level - 1, air above
Column(cap, level) ==
    [y \in 0..MaxY |->
        IF y < level - 1 THEN STONE ELSE IF y = level - 1 THEN cap ELSE _AIR]

Columns == {Column(cap, level) :
                cap \in {STONE, DIRT, _LAVA, _WATER}, level \in 1..(MaxY - 1)}

Worlds == {[p \in Cells |-> cols[p[1]][p[2]]] : cols \in [0..MaxX -> Columns]}

\* Bot.__init__: from the player's side down through the air, then up to the
\* first air cell
SpawnHeight(w, x) ==
    CHOOSE y \in 0..MaxY :
        /\ w[Vec(x, y, 0)] = _AIR
        /\ \A y2 \in 0..(y - 1) : w[Vec(x, y2, 0)] # _AIR

Inventories ==
    {EmptyDict, STONE :> 1, DIRT :> 2, (STONE :> 1) @@ (DIRT :> 1)}

NoAction == Action("None", NoPos, None, None)

NoReplay == [plan |-> <<>>, trace |-> <<>>, step |-> 0, legal |-> TRUE]

NoCall ==
    [func |-> "None", bot |-> 0, action |-> NoAction, raised |-> None,
     placeCalled |-> FALSE, placeEntry |-> NoContent, pre |-> NoContent,
     parent |-> 0, parentPre |-> NoContent]

BotInit ==
    /\ \E w \in Worlds :
          LET pos == Vec(0, SpawnHeight(w, 0), 0)
              m0 == [world |-> w,
                     bots |-> <<[cls |-> "Bot", pos |-> pos, inv |-> 1, changes |-> 0]>>]
          IN /\ world = Bot_move(m0, 1, pos).world
             /\ bots = m0.bots
             /\ blockId \in {STONE, DIRT}
             /\ blockLoc \in {p \in Cells : w[p] = blockId}
    /\ \E inventory \in Inventories : invs = <<inventory>>
    /\ chgs = <<>>
    /\ problemType \in {"mine", "return"}
    /\ meta = <<[parent |-> 0, depth |-> 0, hs |-> <<>>, dead |-> FALSE]>>
    /\ last = NoCall
    /\ setLog = <<<<>>>>
    /\ init0 = [world |-> world, bot |-> Content(Machine, 1)]
    /\ playerLoc = Add(bots[1].pos, Vec(-2, 0, 0))
    /\ replay = NoReplay

BotIdle ==
    /\ world = [p \in Cells |-> _AIR]
    /\ bots = <<>>
    /\ invs = <<>>
    /\ chgs = <<>>
    /\ problemType = "mine"
    /\ blockId = STONE
    /\ blockLoc = Vec(0, 0, 0)
    /\ meta = <<>>
    /\ last = NoCall
    /\ setLog = <<>>
    /\ init0 = [world |-> world, bot |-> NoContent]
    /\ playerLoc = Vec(0, 0, 0)
    /\ replay = NoReplay

\* ---------------------------------------- worlds for the action generator
\* Two columns, taller than the bot's reach.  The Bot stands at height MaxY
\* in column 0, on `floor`, under the two cells `ceiling`; column 1 is stone
\* up to `cap` with air above (level 0: air only).
GenTop == MaxY + 3

GenCells == {Vec(x, y, 0) : x \in 0..1, y \in 0..GenTop}

GenColumn0(floor, ceiling) ==
    [y \in 0..GenTop |->
        IF y < MaxY - 1 THEN STONE
        ELSE IF y = MaxY - 1 THEN floor
        ELSE IF y = MaxY + 2 THEN ceiling[1]
        ELSE IF y = MaxY + 3 THEN ceiling[2]
        ELSE _AIR]

GenColumn1(cap, level) ==
    [y \in 0..GenTop |->
        IF y < level - 1 THEN STONE ELSE IF y = level - 1 THEN cap ELSE _AIR]

GenWorlds ==
    {[p \in GenCells |-> IF p[1] = 0 THEN c0[p[2]] ELSE c1[p[2]]] :
        c0 \in {GenColumn0(floor, ceiling) :
                    floor \in {STONE, _LAVA, _WATER},
                    ceiling \in {_AIR, STONE} \X {_AIR, STONE}},
        c1 \in {GenColumn1(cap, level) :
                    cap \in {STONE, _LAVA, _WATER}, level \in 0..(MaxY + 2)}}

\* the world once Bot.__init__ has moved the Bot to pos
WithBot(w, pos) ==
    Bot_move([world |-> w,
              bots |-> <<[cls |-> "Bot", pos |-> pos, inv |-> 1, changes |-> 0]>>],
             1, pos).world

\* a Bot at `pos` in world w
BotAt(w, pos, inventory) ==
    LET m0 == [world |-> w,
               bots |-> <<[cls |-> "Bot", pos |-> pos, inv |-> 1, changes |-> 0]>>]
    IN /\ world = WithBot(w, pos)
       /\ bots = m0.bots
       /\ invs = <<inventory>>
       /\ chgs = <<>>
       /\ meta = <<[parent |-> 0, depth |-> 0, hs |-> <<>>, dead |-> FALSE]>>
       /\ last = NoCall
       /\ setLog = <<<<>>>>
       /\ init0 = [world |-> world, bot |-> Content(Machine, 1)]
       /\ replay = NoReplay

GenFamilyInit ==
    /\ \E w \in GenWorlds, inventory \in {EmptyDict, (STONE :> 1) @@ (DIRT :> 1)} :
          BotAt(w, Vec(0, MaxY, 0), inventory)
    /\ problemType = "mine"
    /\ blockId = DIRT
    /\ blockLoc = Vec(1, 0, 0)
    /\ playerLoc = Add(bots[1].pos, Vec(-2, 0, 0))

\* a flat world: solid ground at y = -1, the only block of the target id at
\* (3, 0, 0), the Bot at (0, 0, 0) with nothing in its inventory
FlatCells == {Vec(x, y, 0) : x \in 0..3, y \in -1..2}

FlatWorld ==
    [p \in FlatCells |->
        IF p[2] = -1 THEN STONE ELSE IF p = Vec(3, 0, 0) THEN DIRT ELSE _AIR]

FlatStart == Vec(0, 0, 0)

FlatInit ==
    /\ BotAt(FlatWorld, FlatStart, EmptyDict)
    /\ problemType = "mine"
    /\ blockId = DIRT
    /\ blockLoc = Vec(3, 0, 0)
    /\ playerLoc = Add(bots[1].pos, Vec(-2, 0, 0))

\* a Bot boxed in: bedrock on the six sides of its two cells
BoxedStart == Vec(0, 1, 0)

BoxedWorld ==
    [p \in Cells |-> IF p \in {BoxedStart, Add(BoxedStart, Up)} THEN _AIR
                      ELSE _BEDROCK]

BoxedInit ==
    /\ \/ problemType = "mine" /\ BotAt(BoxedWorld, BoxedStart, EmptyDict)
       \/ problemType = "return" /\ BotAt(BoxedWorld, BoxedStart, STONE :> 1)
    /\ blockId = STONE
    /\ blockLoc = Vec(1, 0, 0)
    /\ playerLoc = Add(bots[1].pos, Vec(-2, 0, 0))

\* a Bot on a stone floor with air on every side and above
OpenCells == {Vec(x, y, z) : x \in -1..1, y \in 0..4, z \in -1..1}

OpenWorld ==
    [p \in OpenCells |->
        IF p = Vec(1, 0, 0) THEN DIRT ELSE IF p[2] = 0 THEN STONE ELSE _AIR]

OpenStart == Vec(0, 1, 0)

OpenInit ==
    /\ BotAt(OpenWorld, OpenStart, STONE :> 1)
    /\ problemType = "mine"
    /\ blockId = DIRT
    /\ blockLoc = Vec(1, 0, 0)
    /\ playerLoc = Add(bots[1].pos, Vec(-2, 0, 0))

GenInit == GenFamilyInit \/ FlatInit \/ BoxedInit \/ OpenInit

\* ------------------------------------------- the return to the player
\* The Bot holds the block and stands on one of the two columns; the player
\* is beside column 0, so that the cell two to the player's side is in
\* column 1 and the cell between them in column 0.
ReturnInit ==
    /\ \E w \in Worlds, x \in 0..MaxX,
          inventory \in {STONE :> 1, (STONE :> 1) @@ (DIRT :> 1)} :
          BotAt(w, Vec(x, SpawnHeight(w, x), 0), inventory)
    /\ problemType = "return"
    /\ blockId = STONE
    /\ blockLoc = Vec(0, 0, 0)
    /\ \E y \in 1..(MaxY - 1) : playerLoc = Vec(-1, y, 0)

\* ------------------------------------------------------------- steps
MaxBots == 3
MaxDepth == 2

\* get_legal_actions() without its argument: any block may be placed
ExcludeNothing == None

\* the block get_legal_actions is told not to place
Exclude == IF problemType = "return" THEN blockId ELSE None

Commit(m) ==
    /\ world' = m.world
    /\ bots' = m.bots
    /\ invs' = m.invs
    /\ chgs' = m.chgs
    /\ setLog' = m.setLog

Keys(m, b, action) ==
    IF /\ action.func \in {"_place", "_move_up"}
       /\ action.block = None
       /\ PlaceableKeys(m, b, action.exclude) # {}
    THEN PlaceableKeys(m, b, action.exclude)
    ELSE {None}

Crashed == last.func = "get_legal_actions" /\ last.raised # None

Alive(b) == b \in 2..Len(bots) /\ ~meta[b].dead /\ meta[b].depth < MaxDepth

\* fetch: imag_bot = _ImaginaryBot(self._pos, self._inventory)
NewImaginaryBot ==
    /\ Len(bots) = 1
    /\ ~Crashed
    /\ \E m \in {ImaginaryBot_init(Machine, bots[1].pos, bots[1].inv)} :
          /\ Commit(m)
          /\ meta' = Append(meta, [parent |-> 1, depth |-> 0,
                                   hs |-> <<Heuristic(m, Len(bots) + 1)>>,
                                   dead |-> FALSE])
          /\ last' = [NoCall EXCEPT !.func = "_ImaginaryBot",
                                    !.bot = Len(bots) + 1,
                                    !.parent = 1,
                                    !.parentPre = Content(Machine, 1)]
    /\ UNCHANGED <<problemType, blockId, blockLoc, init0, playerLoc, replay, searchVars>>

\* getSuccessors: `for action in state.get_legal_actions(...)`
GetLegalActions ==
    /\ last.func = "_ImaginaryBot"
    /\ last' = [NoCall EXCEPT
                  !.func = "get_legal_actions", !.bot = last.bot,
                  !.raised = get_legal_actions(Machine, last.bot, Exclude).raised]
    /\ UNCHANGED <<world, bots, invs, chgs, problemType, blockId, blockLoc,
                   meta, setLog, init0, playerLoc, replay, searchVars>>

\* getSuccessors, the body of the loop for one action of the generator's
\* rules: successor = deepcopy(state); successor.take_action(action)
Successor ==
    /\ ~Crashed
    /\ Len(bots) < MaxBots
    /\ \E b \in 2..Len(bots) :
          /\ Alive(b)
          /\ \E acts \in {RuleActions(Machine, b, Exclude)} :
             \E i \in 1..Len(acts) :
             \E key \in Keys(Machine, b, acts[i]) :
             \E m1 \in {deepcopy(Machine, b)} :
             \E m2 \in {take_action(m1, Len(bots) + 1, acts[i], key)} :
                /\ Commit(m2)
                /\ meta' = Append(meta,
                      [parent |-> b, depth |-> meta[b].depth + 1,
                       hs |-> Append(meta[b].hs,
                                     Heuristic(m2, Len(bots) + 1)),
                       dead |-> m2.raised # None])
                /\ last' = [func |-> "getSuccessors", bot |-> Len(bots) + 1,
                            action |-> acts[i], raised |-> m2.raised,
                            placeCalled |-> m2.placeCalled,
                            placeEntry |-> m2.placeEntry,
                            pre |-> Content(m1, Len(bots) + 1),
                            parent |-> b,
                            parentPre |-> Content(Machine, b)]
    /\ UNCHANGED <<problemType, blockId, blockLoc, init0, playerLoc, replay, searchVars>>

\* fetch: imag_bot.take_actions(...), one action applied to the bot itself;
\* imag_bot is bots[2], and its actions come before the successors are made
TakeAction ==
    /\ ~Crashed
    /\ Len(bots) = 2
    /\ \E b \in {2} :
          /\ Alive(b)
          /\ \E acts \in {RuleActions(Machine, b, Exclude)} :
             \E i \in 1..Len(acts) :
             \E key \in Keys(Machine, b, acts[i]) :
             \E m2 \in {take_action(Machine, b, acts[i], key)} :
                /\ Commit(m2)
                /\ meta' = [meta EXCEPT
                      ![b].depth = @ + 1,
                      ![b].hs = Append(@, Heuristic(m2, b)),
                      ![b].dead = m2.raised # None]
                /\ last' = [func |-> "take_action", bot |-> b,
                            action |-> acts[i], raised |-> m2.raised,
                            placeCalled |-> m2.placeCalled,
                            placeEntry |-> m2.placeEntry,
                            pre |-> Content(Machine, b),
                            parent |-> meta[b].parent,
                            parentPre |-> Content(Machine, meta[b].parent)]
    /\ UNCHANGED <<problemType, blockId, blockLoc, init0, playerLoc, replay, searchVars>>

BotNext == NewImaginaryBot \/ GetLegalActions \/ Successor \/ TakeAction

\* ------------------------------------------------- fetch: plan and replay
MaxPlan == 2

\* the plan of the search: one more action of the generator's rules that the
\* simulated bot imag_bot takes without raising
PlanStep ==
    /\ ~Crashed
    /\ Len(bots) = 2
    /\ replay.step = 0
    /\ Len(replay.plan) < MaxPlan
    /\ \E acts \in {RuleActions(Machine, 2, Exclude)} :
       \E i \in 1..Len(acts) :
       \E key \in Keys(Machine, 2, acts[i]) :
       \E m2 \in {take_action(Machine, 2, acts[i], key)} :
          /\ m2.raised = None
          /\ Commit(m2)
          /\ meta' = [meta EXCEPT ![2].depth = @ + 1,
                                  ![2].hs = Append(@, Heuristic(m2, 2))]
          /\ last' = [func |-> "take_action", bot |-> 2,
                      action |-> acts[i], raised |-> m2.raised,
                      placeCalled |-> m2.placeCalled,
                      placeEntry |-> m2.placeEntry,
                      pre |-> Content(Machine, 2),
                      parent |-> 1,
                      parentPre |-> Content(Machine, 1)]
          /\ replay' = [replay EXCEPT
                          !.plan = Append(@, [action |-> acts[i], key |-> key]),
                          !.trace = Append(@, Content(m2, 2))]
    /\ UNCHANGED <<problemType, blockId, blockLoc, init0, playerLoc, searchVars>>

\* fetch: self.take_actions(mine_actions, _DELAY), the next action of the
\* plan taken by the Bot in the live world
LiveStep ==
    /\ Len(bots) = 2
    /\ replay.step < Len(replay.plan)
    /\ ~(last.func = "Bot.take_action" /\ last.raised # None)
    /\ \E e \in {replay.plan[replay.step + 1]} :
       \E acts \in {RuleActions(Machine, 1, Exclude)} :
       \E m1 \in {take_action(Machine, 1, e.action, e.key)} :
          /\ Commit(m1)
          /\ last' = [func |-> "Bot.take_action", bot |-> 1,
                      action |-> e.action, raised |-> m1.raised,
                      placeCalled |-> m1.placeCalled,
                      placeEntry |-> m1.placeEntry,
                      pre |-> Content(Machine, 1),
                      parent |-> 0,
                      parentPre |-> Content(Machine, 1)]
          /\ replay' = [replay EXCEPT
                          !.step = @ + 1,
                          !.legal = \E j \in 1..Len(acts) : acts[j] = e.action]
    /\ UNCHANGED <<problemType, blockId, blockLoc, meta, init0, playerLoc,
                   searchVars>>

ReplayNext == NewImaginaryBot \/ PlanStep \/ LiveStep

\* --------------------------------------------------------- FindProblem
\* _MINECRAFT.getHeight(x, z): the y of the highest block of the column that
\* is not air
getHeight(w, x, z) ==
    LET ys == {q[2] : q \in {p \in DOMAIN w : p[1] = x /\ p[3] = z /\ w[p] # _AIR}}
    IN IF ys = {} THEN 0 - 1
       ELSE CHOOSE y \in ys : \A y2 \in ys : y2 <= y

\* `_adj_dirs + [...]` adds a list to a function: TypeError
_all_dirs == Result("TypeError", FALSE, <<>>)

\* the list rtn of FindProblem.getSuccessors over the six directions
find_successors_rtn(w, state) ==
    Flatten([i \in 1..Len(AllDirs) |->
        LET dir == AllDirs[i]
            successor == Add(state, dir)
        IN IF /\ successor[2] <= getHeight(w, successor[1], successor[3])
              /\ getBlock(w, successor) # _BEDROCK
           THEN <<[succ |-> successor, action |-> dir, cost |-> StepCost]>>
           ELSE <<>>])

Find_getSuccessors(w, state) ==
    IF _all_dirs.raised # None THEN Result(_all_dirs.raised, FALSE, <<>>)
    ELSE Result(None, FALSE, find_successors_rtn(w, state))

Find_isGoalState(w, state) == getBlock(w, state) = blockId

\* Bot._get_block_loc: FindProblem(self._pos, block_id) on the live world,
\* searched breadth first
FindInit ==
    /\ \E w \in Worlds, x \in 0..MaxX :
          BotAt(w, Vec(x, SpawnHeight(w, x), 0), EmptyDict)
    /\ problemType = "mine"
    /\ blockId \in {STONE, DIRT, _WATER}
    /\ blockLoc = Vec(0, 0, 0)
    /\ playerLoc = Add(bots[1].pos, Vec(-2, 0, 0))
    /\ succs = [p \in Cells |-> find_successors_rtn(world, p)]
    /\ goals = {p \in Cells : Find_isGoalState(world, p)}
    /\ problemKind = "FindProblem"
    /\ discipline = "bfs"
    /\ heur = [p \in Cells |-> nullHeuristic(p)]
    /\ nodes = <<>>
    /\ fringe = <<>>
    /\ closed = {}
    /\ pc = "start"
    /\ result = <<>>
    /\ nextId = 1
    /\ pops = 0
    /\ expanded = [p \in Cells |-> 0]

\* graph_search: the start node is FindProblem.getStartState(), self._pos
FindStart ==
    /\ pc = "start"
    /\ nodes' = <<[state |-> [c |-> bots[1].pos, id |-> 0], action |-> 0,
                   cost |-> 0, prev |-> 0]>>
    /\ fringe' = <<Entry(1, nodes'[1], 0)>>
    /\ closed' = {}
    /\ pc' = "loop"
    /\ UNCHANGED botVars
    /\ UNCHANGED <<succs, goals, problemKind, heur, discipline, result, nextId,
                   pops, expanded>>

\* graph_search: problem.getSuccessors(node[0]) on the first state that is
\* popped and is no goal
FindGetSuccessors ==
    /\ pc = "loop"
    /\ fringe # <<>>
    /\ last.func = NoCall.func
    /\ LET state == nodes[fringe[PopIndex(fringe)].node].state
       IN /\ ~isGoalState(state)
          /\ state \notin closed
          /\ last' = [NoCall EXCEPT
                        !.func = "FindProblem.getSuccessors",
                        !.raised = Find_getSuccessors(world, state.c).raised]
    /\ UNCHANGED searchVars
    /\ UNCHANGED <<world, bots, invs, chgs, problemType, blockId, blockLoc,
                   meta, setLog, init0, playerLoc, replay>>

FindNext == FindStart \/ FindGetSuccessors \/ Fail \/ Return \/ Expand \/ Skip

\* ------------------------------------------------------- specifications
\* graph_search on a problem instance
Init == SearchInit /\ BotIdle

Next == SearchNext

Spec == Init /\ [][Next]_vars

\* the simulated bots of one fetch
BotSpecInit == BotInit /\ SearchIdle

BotSpecNext == BotNext

BotSpec == BotSpecInit /\ [][BotSpecNext]_vars

\* Bot._get_block_loc: the breadth-first search of a FindProblem, expanding
\* with the list getSuccessors builds
FindSpec == FindInit /\ [][FindNext]_vars

\* fetch: a plan made on the simulated bot, then taken by the Bot
ReplaySpecInit == BotInit /\ SearchIdle

ReplaySpec == ReplaySpecInit /\ [][ReplayNext]_vars

\* the simulated bots of one fetch, in the worlds for the action generator
GenSpecInit == GenInit /\ SearchIdle

GenSpecNext == BotNext

GenSpec == GenSpecInit /\ [][GenSpecNext]_vars

\* the simulated bots of the return half of a fetch
ReturnSpecInit == ReturnInit /\ SearchIdle

ReturnSpecNext == BotNext

ReturnSpec == ReturnSpecInit /\ [][ReturnSpecNext]_vars


\* ================================================================ claims

\* the content reached by applying `acts` from content c; 0 when some action
\* is not an action of the state it is applied to
RECURSIVE Replay(_, _)
Replay(c, acts) ==
    IF acts = <<>> THEN c
    ELSE IF c = 0 \/ Head(acts) \notin 1..Len(succs[c]) THEN 0
    ELSE Replay(succs[c][Head(acts)].succ, Tail(acts))

RECURSIVE ReplayCost(_, _)
ReplayCost(c, acts) ==
    IF acts = <<>> \/ c = 0 \/ Head(acts) \notin 1..Len(succs[c]) THEN 0
    ELSE succs[c][Head(acts)].cost
            + ReplayCost(succs[c][Head(acts)].succ, Tail(acts))

OptimalCost == Dist(succs, StartContent, goals)

GoalReachable == OptimalCost # Infinity

\* C1: whenever graph_search returns, replaying the returned actions from the
\* start state follows successor edges only and ends in a goal state; if the
\* start state is a goal the returned list is empty.
C1_PlanReachesGoal ==
    pc = "done" =>
        /\ Replay(StartContent, result) \in goals
        /\ (StartContent \in goals => result = <<>>)

C1_Witness ==
    /\ pc = "done"
    /\ Len(result) >= 4
    /\ discipline = "dfs"

\* a heuristic that never exceeds the least cost to a goal
Admissible ==
    \A s \in States :
        Dist(succs, s, goals) # Infinity => heur[s] <= Dist(succs, s, goals)

\* a heuristic that is 0 at goals and drops by at most the step cost along
\* every successor edge
Consistent ==
    /\ \A s \in goals : heur[s] = 0
    /\ \A s \in States : \A k \in 1..Len(succs[s]) :
           heur[s] <= succs[s][k].cost + heur[succs[s][k].succ]

\* C2 (as stated): on a unit-cost problem breadth-first and uniform-cost
\* search return plans of minimal length, and A* with an admissible heuristic
\* returns a plan of the optimal cost.
C2_AdmissibleOptimal ==
    pc = "done" =>
        /\ (discipline \in {"bfs", "ucs"} => Len(result) = OptimalCost)
        /\ (discipline = "astar" /\ Admissible =>
                ReplayCost(StartContent, result) = OptimalCost)

\* C2 (amended): on a unit-cost problem breadth-first and uniform-cost search
\* return plans of minimal length, and A* with a consistent heuristic returns
\* a plan of the optimal cost.
C2_ConsistentOptimal ==
    pc = "done" =>
        /\ (discipline \in {"bfs", "ucs"} => Len(result) = OptimalCost)
        /\ (discipline = "astar" /\ Consistent =>
                ReplayCost(StartContent, result) = OptimalCost)

C2_Witness ==
    /\ pc = "done"
    /\ discipline = "astar"
    /\ Consistent
    /\ heur # ZeroHeuristic
    /\ Len(result) = 4
    /\ Len(succs[3]) > 0

\* the number of nodes a search that expands every content at most once can
\* push: the start node and one node per successor edge of a reachable content
PushBound ==
    LET R == Reach(succs, {StartContent})
        RECURSIVE Sum(_)
        Sum(S) == IF S = {} THEN 0
                  ELSE LET s == CHOOSE x \in S : TRUE
                       IN Len(succs[s]) + Sum(S \ {s})
    IN 1 + Sum(R)

\* C3: the search raises the no-path error exactly when the frontier is empty
\* before a goal was popped, and that happens if and only if no goal state is
\* reachable: it is raised only then, a plan is returned only when a goal is
\* reachable, and with no goal reachable the frontier is exhausted once every
\* node of the reachable graph has been popped.
C3_NoPathIffUnreachable ==
    /\ (pc = "failed" => fringe = <<>> /\ ~GoalReachable)
    /\ (pc = "done" => GoalReachable)
    /\ (pc = "loop" /\ ~GoalReachable /\ pops >= PushBound => fringe = <<>>)

ClosedContents == {s.c : s \in closed}

Unexpanded == Reach(succs, {StartContent}) \ ClosedContents

\* C4: every search terminates: each loop iteration that does not end the
\* search either closes a content that was not closed before or shortens the
\* frontier, so the pair (contents not yet closed, frontier length) decreases.
C4_Terminates ==
    [][pc = "loop" /\ pc' = "loop" =>
        \/ Cardinality(Unexpanded') < Cardinality(Unexpanded)
        \/ /\ Cardinality(Unexpanded') = Cardinality(Unexpanded)
           /\ Len(fringe') < Len(fringe)]_vars

\* C5: states of equal content are one state for the closed set: no content
\* has its successors pushed more than once during a search.
C5_ExpandedOnce == \A s \in States : expanded[s] <= 1

\* -------------------------------------------------- claims on the bots
ImaginaryBots == {b \in 1..Len(bots) : bots[b].cls = "_ImaginaryBot"}

\* the calls of _set_block on bot b that name pos, in the order they were made
SetsAt(b, pos) == SelectSeq(setLog[b], LAMBDA e : e[1] = pos)

\* the cells a claim looks at: the window and every cell a bot has set
Probes(b) == Cells \cup {setLog[b][i][1] : i \in 1..Len(setLog[b])}

\* C6: after any sequence of _set_block calls on a simulated bot, _get_block
\* of a position returns the value of the most recent call for that position
\* whatever the live block there, and the live block for every position no
\* call has named.
C6_OverlayShadows ==
    \A b \in ImaginaryBots : \A pos \in Probes(b) :
        LET sets == SetsAt(b, pos)
        IN _get_block(Machine, b, pos) =
              IF sets # <<>> THEN sets[Len(sets)][2]
              ELSE getBlock(world, pos)

C6_Witness ==
    \E b \in ImaginaryBots : \E pos \in Cells :
        LET sets == SetsAt(b, pos)
        IN /\ Len(sets) = 2
           /\ sets[1][2] # sets[2][2]
           /\ getBlock(world, pos) # sets[2][2]
           /\ _get_block(Machine, b, pos) = sets[2][2]

\* C7: actions of simulated bots leave the live world's blocks and the live
\* bot's position and inventory as they were; no two bots share an inventory
\* dict, no two simulated bots share a changes dict, and an action taken by a
\* successor leaves the state it was copied from unchanged.
C7_LiveUntouched ==
    /\ bots # <<>> =>
          /\ world = init0.world
          /\ Content(Machine, 1) = init0.bot
    /\ \A b1, b2 \in 1..Len(bots) :
          b1 # b2 =>
             /\ bots[b1].inv # bots[b2].inv
             /\ (b1 \in ImaginaryBots /\ b2 \in ImaginaryBots =>
                    bots[b1].changes # bots[b2].changes)
    /\ last.func = "getSuccessors" =>
          Content(Machine, last.parent) = last.parentPre

C7_Witness ==
    /\ last.func = "getSuccessors"
    /\ last.raised = None
    /\ last.action.func = "_place"
    /\ meta[last.parent].depth = 1
    /\ Inventory(Machine, last.bot) # Inventory(Machine, last.parent)
    /\ Changes(Machine, last.bot) # Changes(Machine, last.parent)
    /\ Changes(Machine, last.parent) # EmptyDict

\* the block the last call of _place has set
Placed == setLog[last.bot][Len(setLog[last.bot])][2]

\* C8: every count of every inventory is strictly positive, and a call of
\* _place that returns has lowered the count of the block it placed by
\* exactly one, removed the key where the count was one, and left every other
\* entry of the inventory as it was.
C8_InventoryPositive ==
    /\ \A r \in 1..Len(invs) : \A k \in DOMAIN invs[r] : invs[r][k] > 0
    /\ last.placeCalled /\ last.raised = None =>
          LET before == last.placeEntry.inventory
              after == Inventory(Machine, last.bot)
          IN /\ Placed \in DOMAIN before
             /\ after = IF before[Placed] = 1 THEN DictDel(before, Placed)
                        ELSE [before EXCEPT ![Placed] = @ - 1]

C8_Witness ==
    /\ last.placeCalled
    /\ last.raised = None
    /\ last.placeEntry.inventory[Placed] = 1
    /\ Placed \notin DOMAIN Inventory(Machine, last.bot)
    /\ Inventory(Machine, last.bot) # EmptyDict

\* the inventory a call of _place cannot place from: an empty one, or one
\* whose only block is the excluded one
NothingToPlace(inventory, exclude) ==
    \/ inventory = EmptyDict
    \/ exclude # None /\ DOMAIN inventory = {exclude}

\* C9: a call of _place on a bot whose inventory is empty, or holds only the
\* excluded block, raises the exception and leaves the bot's position,
\* inventory and changes, and the world, as they were when it was called.
C9_PlaceFailsUnchanged ==
    last.placeCalled
        /\ NothingToPlace(last.placeEntry.inventory, last.action.exclude) =>
            /\ last.raised \in {"Inventory empty", "Only the excluded block"}
            /\ Content(Machine, last.bot) = last.placeEntry
            /\ world = init0.world

C9_Witness ==
    /\ last.placeCalled
    /\ last.action.exclude # None
    /\ DOMAIN last.placeEntry.inventory = {last.action.exclude}
    /\ last.raised = "Only the excluded block"

\* C10: the value of _mine_heuristic at a state is at most the number of
\* actions of any sequence that leads from it to a state holding the block,
\* and it is 0 at every state that holds the block.
C10_Admissible ==
    problemType = "mine" =>
        \A b \in ImaginaryBots :
            LET hs == meta[b].hs
            IN ~meta[b].dead /\ Mine_isGoalState(Machine, b) =>
                  /\ hs[Len(hs)] = 0
                  /\ \A i \in 1..Len(hs) : hs[i] <= Len(hs) - i

\* ------------------------------------------ claims on the action generator
Elems(seq) == {seq[i] : i \in 1..Len(seq)}

Passable(block) == block \in {_AIR, _WATER}

Solid(block) == block \notin {_AIR, _WATER, _LAVA}

\* the destination of a lateral move of bot b, and whether its two cells
\* (feet and head) are passable
Dest(b, dir) == Add(bots[b].pos, dir)

FootprintPassable(b, dir) ==
    /\ Passable(_get_block(Machine, b, Dest(b, dir)))
    /\ Passable(_get_block(Machine, b, Add(Dest(b, dir), Up)))

Below(b, dir, k) == _get_block(Machine, b, Add(Dest(b, dir), Vec(0, -k, 0)))

\* exactly D cells of air below the destination's feet, and a landing under them
ClearAbove(b, dir, D) ==
    /\ \A k \in 1..D : Below(b, dir, k) = _AIR
    /\ Below(b, dir, D + 1) # _AIR

\* the moves to a cell at or below the destination that a list holds
FallMoves(b, dir, list) ==
    {a \in Elems(list) :
        /\ a.func = "_move"
        /\ \E k \in 0.._DROP_PLUS_1 : a.pos = Add(Dest(b, dir), Vec(0, -k, 0))}

\* C11: for each lateral direction with a passable destination footprint,
\* _side_moves returns a move onto the landing when fewer than _DROP cells of
\* air lie above a solid landing, returns no move for the direction when the
\* first cell that is not air below is lava, and returns none when no landing
\* lies within the cells it looks at.
C11_FallRule ==
    \A b \in ImaginaryBots : \A i \in 1..Len(_adj_dirs) :
        LET dir == _adj_dirs[i]
            r == _side_moves(Machine, b, dir, can_move_up(Machine, b))
        IN FootprintPassable(b, dir) =>
              /\ \A D \in 0..(_DROP - 1) :
                    ClearAbove(b, dir, D) /\ Solid(Below(b, dir, D + 1)) =>
                        /\ r.raised = None
                        /\ ~r.none
                        /\ MoveTo(Add(Dest(b, dir), Vec(0, -D, 0))) \in Elems(r.rtn)
              /\ (\E D \in 0.._DROP :
                     ClearAbove(b, dir, D) /\ Below(b, dir, D + 1) = _LAVA) =>
                        FallMoves(b, dir, r.rtn) = {}
              /\ (\A k \in 1.._DROP_PLUS_1 : Below(b, dir, k) = _AIR) =>
                        FallMoves(b, dir, r.rtn) = {}

\* the same, of the list _side_moves has built when it ends
C11_RuleList ==
    \A b \in ImaginaryBots : \A i \in 1..Len(_adj_dirs) :
        LET dir == _adj_dirs[i]
            rtn == side_moves_rtn(Machine, b, dir, can_move_up(Machine, b))
        IN FootprintPassable(b, dir) =>
              /\ \A D \in 0..(_DROP - 1) :
                    ClearAbove(b, dir, D) /\ Solid(Below(b, dir, D + 1)) =>
                        MoveTo(Add(Dest(b, dir), Vec(0, -D, 0))) \in Elems(rtn)
              /\ (\E D \in 0.._DROP :
                     ClearAbove(b, dir, D) /\ Below(b, dir, D + 1) = _LAVA) =>
                        FallMoves(b, dir, rtn) = {}
              /\ (\A k \in 1.._DROP_PLUS_1 : Below(b, dir, k) = _AIR) =>
                        FallMoves(b, dir, rtn) = {}

\* ------------------------------------------------ claims on the return
Lateral == {Vec(1, 0, 0), Vec(-1, 0, 0), Vec(0, 0, 1), Vec(0, 0, -1)}

Twice(d) == <<2 * d[1], 2 * d[2], 2 * d[3]>>

FlatScenario == init0.world = WithBot(FlatWorld, FlatStart)

BoxedScenario == init0.world = WithBot(BoxedWorld, BoxedStart)

\* C13: in the flat world the acquire problem is solved at cost 4, by lateral
\* moves and one mine action, whatever the discipline: the search can expand
\* the states it pops (getSuccessors raises nothing), mining the target from
\* the cell beside it gives a state that holds it, and no state that holds it
\* is reached by fewer than 4 actions.
C13_FlatWorldCost4 ==
    FlatScenario =>
        \A b \in ImaginaryBots :
            ~meta[b].dead =>
              /\ get_legal_actions(Machine, b, Exclude).raised = None
              /\ Mine_isGoalState(Machine, b) => Len(meta[b].hs) >= 5
              /\ bots[b].pos = Vec(2, 0, 0) =>
                    LET m2 == take_action(Machine, b, MineAt(Vec(3, 0, 0)), None)
                    IN m2.raised = None /\ Mine_isGoalState(m2, b)

\* C13, the mine action alone: beside the target, the mine action the
\* generator lists for it gives a state that holds the target.
C13_MineGivesBlock ==
    FlatScenario =>
        \A b \in ImaginaryBots :
            ~meta[b].dead /\ bots[b].pos = Vec(2, 0, 0) =>
                /\ MineAt(Vec(3, 0, 0)) \in Elems(_get_mine_actions(Machine, b).rtn)
                /\ LET m2 == take_action(Machine, b, MineAt(Vec(3, 0, 0)), None)
                   IN m2.raised = None /\ Mine_isGoalState(m2, b)

\* C14: boxed in by bedrock, the acquire search and the return search both
\* end with the no-path error: getSuccessors of the start state returns the
\* empty list and raises nothing, so that the frontier is empty after the
\* first pop, and the generator's rules list no action.
C14_BoxedInNoPath ==
    BoxedScenario =>
        \A b \in ImaginaryBots :
            meta[b].depth = 0 =>
              /\ get_legal_actions(Machine, b, Exclude) = Result(None, FALSE, <<>>)
              /\ RuleActions(Machine, b, Exclude) = <<>>

\* C14, the rules alone: boxed in by bedrock, the generator's rules list no
\* action.
C14_BoxedInNoAction ==
    BoxedScenario =>
        \A b \in ImaginaryBots :
            meta[b].depth = 0 => RuleActions(Machine, b, Exclude) = <<>>

\* ------------------------------------------------- claims on _ReturnProblem
CountOf(inventory, block) ==
    IF block \in DOMAIN inventory THEN inventory[block] ELSE 0

\* C15: in the return problem, from a start state that holds the target
\* block, no action places the target block: a call of _place that returns
\* has set another block, no action lowers the inventory's count of the
\* target block, and every state holds at least one unit of it.
C15_TargetReserved ==
    problemType = "return" =>
        /\ \A b \in ImaginaryBots :
              CountOf(Inventory(Machine, b), blockId) >= 1
        /\ last.func \in {"take_action", "getSuccessors"} =>
              /\ CountOf(Inventory(Machine, last.bot), blockId)
                    >= CountOf(last.pre.inventory, blockId)
              /\ last.placeCalled /\ last.raised = None => Placed # blockId

C15_Witness ==
    /\ problemType = "return"
    /\ last.func = "getSuccessors"
    /\ meta[last.bot].depth = 2
    /\ last.placeCalled
    /\ last.raised = None
    /\ Placed # blockId
    /\ CountOf(last.pre.inventory, blockId) = 1
    /\ CountOf(Inventory(Machine, last.bot), blockId) = 1

\* the least planar Manhattan distance from the bot to the four cells two
\* steps from the player
MinPlanar(b) ==
    LET pos == Pos(Machine, b)
        dist(i) == LET loc == Add(playerLoc, Scale(2, _adj_dirs[i]))
                   IN Abs(pos[1] - loc[1]) + Abs(pos[3] - loc[3])
    IN CHOOSE d \in {dist(i) : i \in 1..Len(_adj_dirs)} :
          \A i \in 1..Len(_adj_dirs) : d <= dist(i)

\* ceil(|dy| / _DROP) above the player, |dy| below
Vertical(b) ==
    LET dy == Pos(Machine, b)[2] - playerLoc[2]
    IN IF dy > 0 THEN (dy + _DROP - 1) \div _DROP ELSE Abs(dy)

Larger(x, y) == IF x >= y THEN x ELSE y

\* C16: at every state of the return problem _return_heuristic returns the
\* larger of the least planar distance to the four cells two steps from the
\* player and the vertical estimate, and the value is at most the number of
\* actions of any sequence that leads from the state to a goal state.
C16_ReturnHeuristic ==
    problemType = "return" =>
        \A b \in ImaginaryBots :
            LET h == _return_heuristic(Machine, b)
                hs == meta[b].hs
            IN /\ h.raised = None
               /\ h.value = Larger(MinPlanar(b), Vertical(b))
               /\ ~meta[b].dead /\ Return_isGoalState(Machine, b) =>
                     \A i \in 1..Len(hs) : hs[i] <= Len(hs) - i

\* C16, the value alone: what lines 571-584 compute from the bot's (x, z) is
\* the larger of the two estimates, and at most the number of actions to a
\* goal state.
C16_RuleValue ==
    problemType = "return" =>
        \A b \in ImaginaryBots :
            LET hs == meta[b].hs
            IN /\ return_heuristic_rtn(Machine, b)
                     = Larger(MinPlanar(b), Vertical(b))
               /\ ~meta[b].dead /\ Return_isGoalState(Machine, b) =>
                     \A i \in 1..Len(hs) : hs[i] <= Len(hs) - i

\* ------------------------------------------------- claims on the moves
\* the block the bot of the last call saw at p when the call was made
BlockBefore(p) ==
    IF p \in DOMAIN last.pre.changes THEN last.pre.changes[p]
    ELSE getBlock(world, p)

Applied(funcs) ==
    /\ last.func \in {"take_action", "getSuccessors"}
    /\ last.raised = None
    /\ last.action.func \in funcs

\* the bot of the last call stands in no cell that held lava, and on no lava
OutOfLava ==
    LET pos == bots[last.bot].pos
    IN /\ BlockBefore(pos) # _LAVA
       /\ BlockBefore(Add(pos, Up)) # _LAVA
       /\ _get_block(Machine, last.bot, Add(pos, Down)) # _LAVA

\* C17: after any move, move-down or step-up action of the generator,
\* neither of the two cells the bot occupies held lava and the cell beneath
\* the bot is not lava.
C17_NeverIntoLava == Applied({"_move", "_move_down"}) => OutOfLava

\* C17, the lateral moves and step-ups alone.
C17_MoveOutOfLava == Applied({"_move"}) => OutOfLava

\* the actions get_legal_actions returns for bot b, and those of the
\* generator's rules
Offered(b) ==
    LET r == get_legal_actions(Machine, b, Exclude)
    IN IF r.raised = None THEN Elems(r.rtn) ELSE {}

RuleOffered(b) == Elems(RuleActions(Machine, b, Exclude))

\* the vertical moves up of bot b (bare move, move up and place), and its
\* lateral step-ups
MoveUps(b) ==
    {Action("_move_up", NoPos, Exclude, None), MoveTo(Add(bots[b].pos, Up))}

StepUps(b) ==
    {MoveTo(Add(Add(bots[b].pos, _adj_dirs[i]), Up)) : i \in 1..Len(_adj_dirs)}

\* the cells above the head of bot b, counted from the head, are passable
ClearOverHead(b, n) ==
    \A k \in 1..n :
        Passable(_get_block(Machine, b, Add(bots[b].pos, Vec(0, 1 + k, 0))))

MoveUpRule(offered, b, n) ==
    /\ (offered \cap MoveUps(b) # {}) <=> ClearOverHead(b, n)
    /\ (offered \cap StepUps(b) # {}) => ClearOverHead(b, n)

\* C18: a vertical move up is among the actions offered for a state if and
\* only if the two cells above the bot's head are passable, and a lateral
\* step-up is offered only when they are.
C18_MoveUpIffTwoClear ==
    \A b \in ImaginaryBots : ~meta[b].dead => MoveUpRule(Offered(b), b, 2)

\* C18, the rules alone, on two cells.
C18_RuleTwoClear ==
    \A b \in ImaginaryBots : ~meta[b].dead => MoveUpRule(RuleOffered(b), b, 2)

\* C18, the rules alone, on the one cell above the head.
C18_RuleOneClear ==
    \A b \in ImaginaryBots : ~meta[b].dead => MoveUpRule(RuleOffered(b), b, 1)

\* ------------------------------------------------ claims on the placements
AgentCells(b) == {bots[b].pos, Add(bots[b].pos, Up)}

Neighbours(p) == {Add(p, d) : d \in Lateral \cup {Up, Down}}

\* p is no cell of bot b, and a neighbour of p that is no cell of b is solid
Anchored(b, p) ==
    /\ p \notin AgentCells(b)
    /\ \E n \in Neighbours(p) \ AgentCells(b) : Solid(_get_block(Machine, b, n))

\* C19: every place action offered for a state names a cell that is none of
\* the bot's two cells and has a solid neighbour that is none of them; after
\* the placement the cell holds the placed block and still has such a
\* neighbour.
C19_PlaceAnchored ==
    /\ \A b \in ImaginaryBots :
          ~meta[b].dead =>
              \A a \in RuleOffered(b) \cup Offered(b) :
                  a.func = "_place" => Anchored(b, a.pos)
    /\ Applied({"_place"}) =>
          /\ Anchored(last.bot, last.action.pos)
          /\ _get_block(Machine, last.bot, last.action.pos) = Placed

C19_Witness ==
    /\ Applied({"_place"})
    /\ DOMAIN world = OpenCells
    /\ last.action.pos \in Neighbours(bots[last.bot].pos)
    /\ Anchored(last.bot, last.action.pos)
    /\ LET p == Add(last.pre.pos, Vec(0, 2, 0))
       IN /\ \A n \in Neighbours(p) \ AgentCells(last.bot) : BlockBefore(n) = _AIR
          /\ last.action.pos # p

\* ------------------------------------------------- claims on FindProblem
RECURSIVE Sum(_)
Sum(dirs) == IF dirs = <<>> THEN Vec(0, 0, 0) ELSE Add(Head(dirs), Sum(Tail(dirs)))

\* the cells one axis-aligned step from p that are not bedrock and not above
\* the height of their column
Steps(p) ==
    {n \in Neighbours(p) :
        /\ getBlock(world, n) # _BEDROCK
        /\ n[2] <= getHeight(world, n[1], n[3])}

RECURSIVE StepsTo(_, _, _)
StepsTo(layer, seen, d) ==
    IF \E p \in layer : getBlock(world, p) = blockId THEN d
    ELSE IF layer = {} THEN Infinity
    ELSE LET next == (UNION {Steps(p) : p \in layer}) \ seen
         IN StepsTo(next, seen \cup next, d + 1)

MinSteps == StepsTo({bots[1].pos}, {bots[1].pos}, 0)

\* the search has returned, and self._pos + sum(dirs) holds the target block
\* after the least number of steps
Located ==
    /\ getBlock(world, Add(bots[1].pos, Sum(result))) = blockId
    /\ Len(result) = MinSteps

\* every state pushed after the start is no bedrock and not above the height
\* of its column
SuccessorsAllowed ==
    \A n \in 2..Len(nodes) :
        LET p == nodes[n].state.c
        IN getBlock(world, p) # _BEDROCK /\ p[2] <= getHeight(world, p[1], p[3])

\* C20: the breadth-first search of FindProblem returns a coordinate that
\* holds the target block, reached from the start by the least number of
\* axis-aligned steps over cells that are no bedrock and not above the
\* height of their column; getSuccessors raises nothing and generates no
\* successor that is bedrock or above that height.
C20_Locate ==
    /\ pc = "done" => Located
    /\ SuccessorsAllowed
    /\ last.func = "FindProblem.getSuccessors" => last.raised = None

\* C20, the search over the list getSuccessors builds.
C20_RuleLocate == (pc = "done" => Located) /\ SuccessorsAllowed

\* ------------------------------------------- claims on applying actions
MoveUpAndPlace == Action("_move_up", NoPos, Exclude, None)

\* C21: get_legal_actions raises nothing, every action of the generator
\* applies to the state it was generated for without raising, the
\* move-up-and-place action is offered only to a bot whose inventory holds a
\* block other than the excluded one, and a move-up-and-place that fails
\* leaves the bot where it was.
C21_ActionsApply ==
    /\ last.func = "get_legal_actions" => last.raised = None
    /\ last.func \in {"take_action", "getSuccessors"} => last.raised = None
    /\ \A b \in ImaginaryBots :
          ~meta[b].dead /\ MoveUpAndPlace \in RuleOffered(b) =>
              _has_blocks_to_place(Machine, b, Exclude)
    /\ last.func \in {"take_action", "getSuccessors"}
          /\ last.action.func = "_move_up" /\ last.raised # None =>
              bots[last.bot].pos = last.pre.pos

\* C21, the generator's call alone.
C21_GeneratorReturns == last.func = "get_legal_actions" => last.raised = None

\* C21, the move-up-and-place action alone: it is offered only to a bot that
\* has a block to place.
C21_MoveUpNeedsBlock ==
    \A b \in ImaginaryBots :
        ~meta[b].dead /\ MoveUpAndPlace \in RuleOffered(b) =>
            _has_blocks_to_place(Machine, b, Exclude)

\* C21, the failed move-up-and-place alone: the bot has not moved.
C21_FailedMoveUpStays ==
    last.func \in {"take_action", "getSuccessors"}
        /\ last.action.func = "_move_up" /\ last.raised # None =>
            bots[last.bot].pos = last.pre.pos

\* C21, the moves and placements alone: no action other than _mine and
\* _move_up raises.
C21_OthersApply ==
    last.func \in {"take_action", "getSuccessors"}
        /\ last.action.func \notin {"_mine", "_move_up"} => last.raised = None

\* --------------------------------------------- claims on the block count
RECURSIVE Total(_)
Total(inventory) ==
    IF DOMAIN inventory = {} THEN 0
    ELSE LET k == CHOOSE x \in DOMAIN inventory : TRUE
         IN inventory[k] + Total(DictDel(inventory, k))

\* the block a bot with the overlay `changes` reads at p
ViewAt(changes, p) ==
    IF p \in DOMAIN changes THEN changes[p] ELSE getBlock(world, p)

\* the solid blocks among `cells` under the overlay
SolidCount(changes, cells) ==
    Cardinality({p \in cells : Solid(ViewAt(changes, p))})

\* the last action has kept solid blocks plus inventory count as they were
Conserved ==
    LET after == Content(Machine, last.bot)
        cells == DOMAIN world \cup DOMAIN after.changes
    IN SolidCount(after.changes, cells) + Total(after.inventory)
          = SolidCount(last.pre.changes, cells) + Total(last.pre.inventory)

\* C22: a place action is offered only for a cell that holds air or water,
\* so that no placement overwrites a solid block, and every mine or place
\* action keeps the number of solid blocks of the simulated world plus the
\* inventory count as it was.
C22_PlaceIntoEmpty ==
    /\ \A b \in ImaginaryBots :
          ~meta[b].dead =>
              \A a \in RuleOffered(b) \cup Offered(b) :
                  a.func = "_place" =>
                      Passable(_get_block(Machine, b, a.pos))
    /\ Applied({"_place"}) => Passable(BlockBefore(last.action.pos))
    /\ Applied({"_place", "_mine"}) => Conserved

\* C22, the placements of a solid block into air or water alone: they keep
\* the count.
C22_SolidIntoEmptyConserves ==
    Applied({"_place"}) /\ Solid(Placed)
        /\ Passable(BlockBefore(last.action.pos)) => Conserved

\* C22, the count alone.
C22_PlaceConserves == Applied({"_place"}) => Conserved

\* --------------------------------------------------- claims on the replay
\* the cells the generator's rules read for a bot at pos
Inspected(pos) ==
    {Add(pos, Vec(0, 2, 0)), Add(pos, Vec(0, -2, 0)), Add(pos, Down)}
        \cup {Add(Add(pos, d), Vec(0, k, 0)) :
                 d \in Lateral, k \in (0 - _DROP_PLUS_1)..2}

\* the block the simulated bot read at p after the first k actions of the plan
PlannedAt(k, p) ==
    LET changes == IF k = 0 THEN EmptyDict ELSE replay.trace[k].changes
    IN IF p \in DOMAIN changes THEN changes[p] ELSE getBlock(init0.world, p)

PlannedContent(k) == IF k = 0 THEN init0.bot ELSE replay.trace[k]

SamePlace ==
    /\ bots[1].pos = PlannedContent(replay.step).pos
    /\ Inventory(Machine, 1) = PlannedContent(replay.step).inventory

SameReadings ==
    \A p \in Inspected(bots[1].pos) :
        getBlock(world, p) = PlannedAt(replay.step, p)

\* C23: when the Bot takes the actions of a plan made on the simulated bot,
\* after each of them the Bot has the position and the inventory the
\* simulated bot had after the same action, the live world reads as the
\* simulated bot's world did at every cell the generator's rules read, and
\* the action was among those the generator's rules list for the Bot and
\* raised nothing.
C23_LockStep ==
    Len(bots) = 2 =>
        /\ SamePlace
        /\ SameReadings
        /\ replay.legal
        /\ last.func = "Bot.take_action" => last.raised = None

\* C23, position and inventory alone.
C23_SamePlace == Len(bots) = 2 => SamePlace

\* C23, the readings alone.
C23_SameReadings == Len(bots) = 2 => SameReadings

\* C23, the legality alone: each action is among those the generator's rules
\* list for the Bot when it takes it.
C23_LiveLegal == replay.legal

\* C23, the live actions alone: none raises.
C23_LiveApplies == last.func = "Bot.take_action" => last.raised = None

====
